---- MODULE Spec2Model ----
(***************************************************************************)
(* Verification model of the ethio-home-nexus web client.                  *)
(*                                                                         *)
(* Part I  (Spec)      : the zustand auth store, the axios response        *)
(*                       interceptor, the useAuth hook and the route guard.*)
(* Part II (CacheSpec) : the react-query cache as configured and used by   *)
(*                       the property hooks.                               *)
(* Part III (ResourceSpec) : the onSuccess handlers of the mutation hooks  *)
(*                       and the cached queries they invalidate.           *)
(* Part IV (PageSpec)  : the Properties page: filter state, the filter     *)
(*                       object it builds, the listing and the pagination. *)
(* Part V (GuardSpec)  : the route guard as a function of the session and  *)
(*                       of the roles a view requires.                     *)
(* LiveSpec            : Part I with the guarantee that a request ends.    *)
(***************************************************************************)
EXTENDS Integers, Sequences, FiniteSets, TLC

(***************************************************************************)
(* Bounds                                                                  *)
(***************************************************************************)
MaxInflight == 2
\* largest number of components that mount useAuth in one render pass
MaxConsumers == 2
\* number of query observers (components reading the cache)
MaxObservers == 2
\* network calls the queries issue in one run
MaxCalls == 4
\* longest text typed into the search box
MaxLen == 2
\* largest page number the Properties page is driven to
MaxPage == 4

(***************************************************************************)
(* Values                                                                  *)
(***************************************************************************)
Null == "null"
Undefined == "undefined"
Users == {"u1"}
UserVals == Users \cup {Null, Undefined}
NoCookie == "none"

LoginPath == "/login"
PublicPath == "/"
ProtectedPath == "/dashboard"
Paths == {LoginPath, PublicPath, ProtectedPath}

\* outcomes of one HTTP call as axios reports them; "neterr" is an error
\* without a response (network failure or the 10 s timeout)
Statuses == {"200", "401", "403", "500", "neterr"}

Ops == {"login", "logout", "probe", "other"}

VARIABLES
  store,        \* the zustand state: [user, isAuthenticated, isLoading]
  authStorage,  \* localStorage entry 'auth-storage'
  pathname,     \* window.location.pathname
  navPending,   \* window.location.href was assigned, document not yet replaced
  cookie,       \* user of the server-side session (JWT cookie) or NoCookie
  inflight,     \* number of requests in flight, per operation
  bootstrapped, \* the first useAuth mount pass of this page load has run
  bootProbes,   \* probes issued by that first pass
  last,         \* the handler that ran last and how its request ended
  entries,      \* the query cache: one entry per query key
  obs,          \* number of observers subscribed to each query
  mutating,     \* a createProperty mutation is pending
  netCalls,     \* network calls issued by the queries so far
  late,         \* the last answer was for a key no observer was on any more
  resources,    \* the cached queries of all resources, per query key
  mutation,     \* the result of the mutation that settled last
  searchQuery,  \* Properties page: text of the search box
  selectedType, \* Properties page: property type select
  priceRange,   \* Properties page: the two thumbs of the price slider
  bedrooms,     \* Properties page: bedrooms select
  bathrooms,    \* Properties page: bathrooms select
  sortBy,       \* Properties page: sort select
  currentPage,  \* Properties page: page number
  verifiedOnly, \* Properties page: verified checkbox
  listing,      \* Properties page: what useProperties(filters) returns
  guard         \* a mounted route guard: its props, the session it read
                \* and the element it returned

authVars == <<store, authStorage, pathname, navPending, cookie, inflight,
              bootstrapped, bootProbes, last>>

cacheVars == <<entries, obs, mutating, netCalls, late>>

uiVars == <<searchQuery, selectedType, priceRange, bedrooms, bathrooms,
            sortBy, currentPage, verifiedOnly>>

pageVars == <<searchQuery, selectedType, priceRange, bedrooms, bathrooms,
              sortBy, currentPage, verifiedOnly, listing>>

vars == <<store, authStorage, pathname, navPending, cookie, inflight,
          bootstrapped, bootProbes, last, entries, obs, mutating,
          netCalls, late, resources, mutation, searchQuery, selectedType,
          priceRange, bedrooms, bathrooms, sortBy, currentPage,
          verifiedOnly, listing, guard>>

(***************************************************************************)
(* Pure helpers                                                            *)
(***************************************************************************)
\* JavaScript truthiness of a user value: !!user, !authStore.user
Truthy(u) == u \notin {Null, Undefined}

\* zustand set(partial): shallow merge of the partial into the state
set(st, partial) ==
  [k \in DOMAIN st |-> IF k \in DOMAIN partial THEN partial[k] ELSE st[k]]

\* initial state of the store creator
InitialState == [user |-> Null, isAuthenticated |-> FALSE, isLoading |-> FALSE]

NoStorage == [present |-> FALSE, hasUser |-> FALSE, user |-> Null,
              isAuthenticated |-> FALSE]

\* persist middleware: JSON.stringify(partialize(state)); a key whose value
\* is undefined is dropped by JSON.stringify
partialize(st) ==
  [present |-> TRUE,
   hasUser |-> st.user # Undefined,
   user |-> IF st.user = Undefined THEN Null ELSE st.user,
   isAuthenticated |-> st.isAuthenticated]

\* persist middleware rehydration: the stored keys are merged over the
\* initial state
rehydrate(stg) ==
  IF ~stg.present THEN InitialState
  ELSE [user |-> IF stg.hasUser THEN stg.user ELSE InitialState.user,
        isAuthenticated |-> stg.isAuthenticated,
        isLoading |-> InitialState.isLoading]

\* window.location.pathname.includes('/login')
IncludesLogin(p) == p = LoginPath

\* variant: a 403 is handled like a 401
interceptStorageForbiddenToo(status, stg) ==
  IF status \in {"401", "403"} THEN NoStorage ELSE stg

\* response error interceptor: effect on localStorage
interceptStorage(status, stg) == IF status = "401" THEN NoStorage ELSE stg

\* variant: the interceptor only clears the storage entry
interceptNavNoRedirect(status, p, pending) == pending

\* response error interceptor: window.location.href = '/login'
interceptNav(status, p, pending) ==
  IF status = "401" /\ ~IncludesLogin(p) THEN TRUE ELSE pending

\* body of the login response as sent by createSendToken
LoginResponseBody(u) ==
  [status |-> "success", token |-> "jwt", data |-> [user |-> u]]

\* body of GET /users/me
MeResponseBody(u) == [status |-> "success", data |-> [user |-> u]]

\* AuthService.login returns response.data
AuthService_login(body) == body

\* AuthService.getCurrentUser returns response.data.data.user
AuthService_getCurrentUser(body) == body.data.user

\* const { user } = await authService.login(...)
DestructureUser(result) ==
  IF "user" \in DOMAIN result THEN result.user ELSE Undefined

Protected(p) == p = ProtectedPath

\* route guard around a protected view: <Navigate to="/login" replace />
ProtectedRoute(p, isAuth) == IF Protected(p) /\ ~isAuth THEN LoginPath ELSE p

Total(f) == f["login"] + f["logout"] + f["probe"] + f["other"]

Event(op, status, rejected) ==
  [op |-> op, status |-> status, rejected |-> rejected,
   wasAuth |-> store.isAuthenticated, from |-> pathname]

AuthStep(op, status, rejected) ==
  /\ last' = Event(op, status, rejected)
  /\ UNCHANGED <<cacheVars, resources, mutation, pageVars, guard>>

(***************************************************************************)
(* Part I: the auth store                                                  *)
(***************************************************************************)
\* every set() of the store is followed by the persist write and by the
\* re-render of the guarded view
Commit(st) ==
  /\ store' = st
  /\ authStorage' = partialize(st)
  /\ pathname' = ProtectedRoute(pathname, st.isAuthenticated)

Issue(op, n) == inflight' = [inflight EXCEPT ![op] = @ + n]
Settle(op) == inflight' = [inflight EXCEPT ![op] = @ - 1]

\* what the server can answer to a request of kind op
Feasible(op, status) ==
  CASE op = "login"  -> status \in {"200", "401", "500", "neterr"}
    [] op = "logout" -> status \in {"200", "500", "neterr"}
                        \/ (status = "401" /\ cookie = NoCookie)
    [] op = "probe"  -> \/ status \in {"500", "neterr"}
                        \/ (status = "200" /\ cookie # NoCookie)
                        \/ (status = "401" /\ cookie = NoCookie)
    [] op = "other"  -> \/ status \in {"500", "neterr"}
                        \/ (status \in {"200", "403"} /\ cookie # NoCookie)
                        \/ (status = "401" /\ cookie = NoCookie)

InitStorage ==
  {NoStorage} \cup
  {partialize([user |-> u, isAuthenticated |-> TRUE, isLoading |-> FALSE]) :
     u \in Users} \cup
  {partialize(InitialState)}

AuthInit ==
  /\ authStorage \in InitStorage
  /\ store = rehydrate(authStorage)
  /\ pathname \in Paths
  /\ pathname = ProtectedRoute(pathname, store.isAuthenticated)
  /\ navPending = FALSE
  /\ cookie \in Users \cup {NoCookie}
  /\ inflight = [o \in Ops |-> 0]
  /\ bootstrapped = FALSE
  /\ bootProbes = 0
  /\ last = [op |-> "init", status |-> "none", rejected |-> FALSE,
             wasAuth |-> store.isAuthenticated, from |-> pathname]

\* setUser: (user) => set({ user, isAuthenticated: !!user })
setUserState(st, u) == set(st, [user |-> u, isAuthenticated |-> Truthy(u)])

setUser(u) ==
  /\ Commit(setUserState(store, u))
  /\ AuthStep("setUser", "none", FALSE)
  /\ UNCHANGED <<navPending, cookie, inflight, bootstrapped, bootProbes>>

\* setLoading: (isLoading) => set({ isLoading })
setLoading(b) ==
  /\ Commit(set(store, [isLoading |-> b]))
  /\ AuthStep("setLoading", "none", FALSE)
  /\ UNCHANGED <<navPending, cookie, inflight, bootstrapped, bootProbes>>

\* clearAuth
clearAuthState(st) ==
  set(st, [user |-> Null, isAuthenticated |-> FALSE, isLoading |-> FALSE])

clearAuth ==
  /\ Commit(clearAuthState(store))
  /\ AuthStep("clearAuth", "none", FALSE)
  /\ UNCHANGED <<navPending, cookie, inflight, bootstrapped, bootProbes>>

\* login, up to the await: set({ isLoading: true }); api.post('/users/login')
loginStart ==
  /\ Total(inflight) < MaxInflight
  /\ Commit(set(store, [isLoading |-> TRUE]))
  /\ Issue("login", 1)
  /\ AuthStep("loginStart", "none", FALSE)
  /\ UNCHANGED <<navPending, cookie, bootstrapped, bootProbes>>

\* login, success branch of the try block
loginFulfilled(st, body) ==
  set(st, [user |-> DestructureUser(AuthService_login(body)),
           isAuthenticated |-> TRUE, isLoading |-> FALSE])

\* variant: the catch block rethrows without resetting the flag
loginRejectedKeepsLoading(st) == st

\* login, catch block: set({ isLoading: false }); throw error
loginRejected(st) == set(st, [isLoading |-> FALSE])

\* variant: the catch block does not rethrow
loginSwallows(status) == FALSE

\* the promise returned by login rejects when the request failed
loginThrows(status) == status # "200"

loginSettle(u, status) ==
  /\ inflight["login"] > 0
  /\ Feasible("login", status)
  /\ Settle("login")
  /\ IF status = "200"
       THEN /\ Commit(loginFulfilled(store, LoginResponseBody(u)))
            /\ cookie' = u
            /\ UNCHANGED navPending
       ELSE /\ Commit(loginRejected(store))
            /\ navPending' = interceptNav(status, pathname, navPending)
            /\ UNCHANGED cookie
  /\ AuthStep("login", status, loginThrows(status))
  /\ UNCHANGED <<bootstrapped, bootProbes>>

\* logout, up to the await: api.get('/users/logout')
logoutStart ==
  /\ Total(inflight) < MaxInflight
  /\ Issue("logout", 1)
  /\ AuthStep("logoutStart", "none", FALSE)
  /\ UNCHANGED <<store, authStorage, pathname, navPending, cookie,
                 bootstrapped, bootProbes>>

\* logout, after a successful await
logoutFulfilled(st) ==
  set(st, [user |-> Null, isAuthenticated |-> FALSE, isLoading |-> FALSE])

\* variant: the catch block only resets the loading flag
logoutRejectedKeepsSession(st) == set(st, [isLoading |-> FALSE])

\* logout, catch block ("Even if logout fails on backend, clear local state")
logoutRejected(st) ==
  set(st, [user |-> Null, isAuthenticated |-> FALSE, isLoading |-> FALSE])

\* the catch block of logout does not rethrow
logoutThrows(status) == FALSE

logoutSettle(status) ==
  /\ inflight["logout"] > 0
  /\ Feasible("logout", status)
  /\ Settle("logout")
  /\ IF status = "200"
       THEN /\ Commit(logoutFulfilled(store))
            /\ cookie' = NoCookie
            /\ UNCHANGED navPending
       ELSE /\ Commit(logoutRejected(store))
            /\ navPending' = interceptNav(status, pathname, navPending)
            /\ UNCHANGED cookie
  /\ AuthStep("logout", status, logoutThrows(status))
  /\ UNCHANGED <<bootstrapped, bootProbes>>

\* getCurrentUser, success branch of the try block
getCurrentUserFulfilled(st, body) ==
  set(st, [user |-> AuthService_getCurrentUser(body),
           isAuthenticated |-> TRUE, isLoading |-> FALSE])

\* getCurrentUser, catch block
getCurrentUserRejected(st, status) ==
  set(st, [user |-> Null, isAuthenticated |-> FALSE, isLoading |-> FALSE])

getCurrentUserSettle(status) ==
  /\ inflight["probe"] > 0
  /\ Feasible("probe", status)
  /\ Settle("probe")
  /\ IF status = "200"
       THEN /\ Commit(getCurrentUserFulfilled(store, MeResponseBody(cookie)))
            /\ UNCHANGED navPending
       ELSE /\ Commit(getCurrentUserRejected(store, status))
            /\ navPending' = interceptNav(status, pathname, navPending)
  /\ AuthStep("probe", status, FALSE)
  /\ UNCHANGED <<cookie, bootstrapped, bootProbes>>

\* the effect of useAuth: the condition is evaluated on the state the
\* component rendered with
useAuthProbes(snapshot) == ~Truthy(snapshot.user) /\ ~snapshot.isLoading

\* getCurrentUser, up to the await:
\* set({ isLoading: true }); api.get('/users/me')
getCurrentUserPending(st) == set(st, [isLoading |-> TRUE])

\* n components that call useAuth mount in one render pass; their effects
\* run one after the other in the commit that follows, each on the state
\* its component rendered with
mountUseAuth(n) ==
  LET issued == IF useAuthProbes(store) THEN n ELSE 0 IN
  /\ Total(inflight) + issued <= MaxInflight
  /\ IF issued > 0
       THEN Commit(getCurrentUserPending(store))
       ELSE UNCHANGED <<store, authStorage, pathname>>
  /\ Issue("probe", issued)
  /\ bootstrapped' = TRUE
  /\ bootProbes' = IF bootstrapped THEN bootProbes ELSE issued
  /\ AuthStep("mount", "none", FALSE)
  /\ UNCHANGED <<navPending, cookie>>

\* any other API request (properties, reviews, interests, ...)
otherStart ==
  /\ Total(inflight) < MaxInflight
  /\ Issue("other", 1)
  /\ AuthStep("otherStart", "none", FALSE)
  /\ UNCHANGED <<store, authStorage, pathname, navPending, cookie,
                 bootstrapped, bootProbes>>

otherSettle(status) ==
  /\ inflight["other"] > 0
  /\ Feasible("other", status)
  /\ Settle("other")
  /\ authStorage' = interceptStorage(status, authStorage)
  /\ navPending' = interceptNav(status, pathname, navPending)
  /\ AuthStep("other", status, status # "200")
  /\ UNCHANGED <<store, pathname, cookie, bootstrapped, bootProbes>>

\* the session cookie expires or is revoked on the server
serverExpire ==
  /\ cookie # NoCookie
  /\ cookie' = NoCookie
  /\ AuthStep("expire", "none", FALSE)
  /\ UNCHANGED <<store, authStorage, pathname, navPending, inflight,
                 bootstrapped, bootProbes>>

\* client-side route change
navigate(p) ==
  /\ p # pathname
  /\ pathname' = ProtectedRoute(p, store.isAuthenticated)
  /\ AuthStep("navigate", "none", FALSE)
  /\ UNCHANGED <<store, authStorage, navPending, cookie, inflight,
                 bootstrapped, bootProbes>>

\* a document load, either the one started by window.location.href =
\* '/login' or a refresh by the user: the page and its requests are dropped
\* and the store is created again from 'auth-storage'
reload ==
  /\ navPending' = FALSE
  /\ store' = rehydrate(authStorage)
  /\ pathname' = ProtectedRoute(IF navPending THEN LoginPath ELSE pathname,
                                store'.isAuthenticated)
  /\ inflight' = [o \in Ops |-> 0]
  /\ bootstrapped' = FALSE
  /\ bootProbes' = 0
  /\ AuthStep("reload", "none", FALSE)
  /\ UNCHANGED <<authStorage, cookie>>

AuthNext ==
  \/ \E u \in Users \cup {Null} : setUser(u)
  \/ \E b \in BOOLEAN : setLoading(b)
  \/ clearAuth
  \/ loginStart
  \/ \E u \in Users, s \in Statuses : loginSettle(u, s)
  \/ logoutStart
  \/ \E s \in Statuses : logoutSettle(s)
  \/ \E s \in Statuses : getCurrentUserSettle(s)
  \/ \E n \in 1..MaxConsumers : mountUseAuth(n)
  \/ otherStart
  \/ \E s \in Statuses : otherSettle(s)
  \/ serverExpire
  \/ \E p \in Paths : navigate(p)
  \/ reload

(***************************************************************************)
(* Part II: the query cache                                                *)
(***************************************************************************)
\* a query as a hook call: the hook and its arguments
NoQuery == [hook |-> "none", a |-> "-", b |-> "-"]
Filters == {"F1", "F2"}
SearchTexts == {"q1"}

Queries ==
  {[hook |-> "useProperties", a |-> f, b |-> "-"] : f \in Filters} \cup
  {[hook |-> "useSearchProperties", a |-> t, b |-> "F1"] : t \in SearchTexts}

\* variant: the filters are left out of the key
PropertiesQueryKeyNoFilters(filters) == <<"properties">>

\* useProperties: queryKey: ['properties', filters]
PropertiesQueryKey(filters) == <<"properties", filters>>

\* useSearchProperties: queryKey: ['properties', 'search', query, filters]
SearchQueryKey(query, filters) == <<"properties", "search", query, filters>>

KeyOf(q) ==
  CASE q.hook = "useProperties" -> PropertiesQueryKey(q.a)
    [] q.hook = "useSearchProperties" -> SearchQueryKey(q.a, q.b)

\* the enabled option: !!query for the search
Enabled(q) ==
  CASE q.hook = "useProperties" -> TRUE
    [] q.hook = "useSearchProperties" -> q.a # ""

Keys == {KeyOf(q) : q \in Queries}
NoKey == <<>>

\* the data of an entry is the answer to the request of the queryFn that
\* ran, identified by the arguments that queryFn closed over
NoData == NoQuery

EmptyEntry ==
  [data |-> NoData, invalidated |-> FALSE, aged |-> FALSE,
   fetching |-> FALSE, fq |-> NoQuery, failureCount |-> 0,
   status |-> "pending", calls |-> 0]

\* invalidateQueries / refetchQueries match a query whose key starts with
\* the given partial key
IsPrefix(partial, key) ==
  /\ Len(partial) <= Len(key)
  /\ \A i \in 1..Len(partial) : partial[i] = key[i]

\* variant: staleTime 0, the data is stale as soon as it is stored
IsStaleAlways(e) == TRUE

\* a query is stale when it was invalidated, has no data, or its data is
\* older than staleTime (5 minutes)
IsStale(e) == e.invalidated \/ e.data = NoData \/ e.aged

\* the queryFn runs: one network call, counted per fetch
RunQueryFn(e, q) ==
  [e EXCEPT !.fetching = TRUE, !.fq = q, !.failureCount = 0,
            !.status = IF e.data = NoData THEN "pending" ELSE e.status,
            !.calls = IF e.fetching THEN @ + 1 ELSE 1]

\* variant: an observer starts its own request although one is in flight
StartFetchNoDedup(e, q) == RunQueryFn(e, q)

\* a fetch asked for by an observer: it joins the request in flight if there
\* is one, else it runs the queryFn
StartFetch(e, q) == IF e.fetching THEN e ELSE RunQueryFn(e, q)

\* a fetch asked for by invalidateQueries (cancelRefetch): a request in
\* flight for an entry that has data is dropped and replaced, one for an
\* entry without data is joined
Refetch(e, q) ==
  IF e.fetching /\ e.data = NoData THEN e
  ELSE RunQueryFn(e, q)

\* useQuery fetches when an observer subscribes to an enabled query that is
\* stale (refetchOnMount) or has no data
FetchOnSubscribe(q, e) == Enabled(q) /\ IsStale(e)

\* the query with key k has an enabled observer
ActiveOn(ob, k) ==
  \E q \in DOMAIN ob : ob[q] > 0 /\ Enabled(q) /\ KeyOf(q) = k

ObservedOn(ob, k) == \E q \in DOMAIN ob : ob[q] > 0 /\ KeyOf(q) = k

\* the options of the query with key k: those of one of its observers
QueryOn(ob, k) ==
  CHOOSE q \in Queries : ob[q] > 0 /\ Enabled(q) /\ KeyOf(q) = k

RECURSIVE Sum(_, _)
Sum(f, S) ==
  IF S = {} THEN 0 ELSE LET x == CHOOSE y \in S : TRUE IN f[x] + Sum(f, S \ {x})

Observing(ob) == Sum(ob, DOMAIN ob)

\* what an observer of query q renders: the data of the entry of its key
View(q) == entries[KeyOf(q)].data

\* the ways the request of a queryFn fails: an error status or an error
\* without a response
FetchErrors == {"401", "403", "404", "500", "neterr"}

\* variant: the status of the error is not looked at
retryWhateverStatus(failureCount, status) == failureCount < 3

\* queryClient retry option: no retry on 401, 403, 404, else up to 3 retries
retry(failureCount, status) ==
  IF status \in {"401", "403", "404"} THEN FALSE ELSE failureCount < 3

\* variant: the mutation invalidates the detail namespace
CreateInvalidatedKeyDetail == <<"property">>

\* useCreateProperty onSuccess: invalidateQueries({ queryKey: ['properties'] })
CreateInvalidatedKey == <<"properties">>

\* queryClient.invalidateQueries: every matching query of the cache is marked
\* invalidated and the matching queries that have an enabled observer are
\* refetched
invalidateQueries(es, ob, partial) ==
  [k \in DOMAIN es |->
     IF ~IsPrefix(partial, k) \/ es[k] = EmptyEntry THEN es[k]
     ELSE LET e == [es[k] EXCEPT !.invalidated = TRUE] IN
          IF ActiveOn(ob, k) THEN Refetch(e, QueryOn(ob, k)) ELSE e]

CacheIdle ==
  /\ entries = [k \in Keys |-> EmptyEntry]
  /\ obs = [q \in Queries |-> 0]
  /\ mutating = FALSE
  /\ netCalls = 0
  /\ late = FALSE

\* number of network calls a handler issued
Issued(old, new) ==
  Cardinality({k \in DOMAIN old :
                 new[k].fetching /\ new[k].calls # old[k].calls})

\* common part of the cache handlers: the calls issued are counted
CacheStep ==
  /\ netCalls' = netCalls + Issued(entries, entries')
  /\ netCalls' <= MaxCalls
  /\ UNCHANGED <<authVars, resources, mutation, pageVars, guard>>

\* the subscription of an observer to query q
subscribe(es, q) ==
  IF FetchOnSubscribe(q, es[KeyOf(q)])
    THEN [es EXCEPT ![KeyOf(q)] = StartFetch(@, q)]
    ELSE es

\* a component that reads query q mounts
observe(q) ==
  /\ Observing(obs) < MaxObservers
  /\ obs' = [obs EXCEPT ![q] = @ + 1]
  /\ entries' = subscribe(entries, q)
  /\ late' = FALSE
  /\ UNCHANGED mutating
  /\ CacheStep

\* the arguments of the hook of a mounted component change from q to r
\* (the filters of the Properties page change)
changeQuery(q, r) ==
  /\ obs[q] > 0
  /\ q # r
  /\ q.hook = r.hook
  /\ obs' = [obs EXCEPT ![q] = @ - 1, ![r] = @ + 1]
  /\ entries' = subscribe(entries, r)
  /\ late' = FALSE
  /\ UNCHANGED mutating
  /\ CacheStep

\* a component unmounts
unobserve(q) ==
  /\ obs[q] > 0
  /\ obs' = [obs EXCEPT ![q] = @ - 1]
  /\ late' = FALSE
  /\ UNCHANGED <<entries, mutating>>
  /\ CacheStep

\* the request of the running fetch is answered
fetchSuccess(k) ==
  /\ entries[k].fetching
  /\ entries' = [entries EXCEPT ![k] =
       [@ EXCEPT !.data = entries[k].fq,
                 !.invalidated = FALSE, !.aged = FALSE, !.fetching = FALSE,
                 !.fq = NoQuery, !.failureCount = 0, !.status = "success",
                 !.calls = 0]]
  /\ late' = (/\ ~ObservedOn(obs, k)
              /\ \E q \in Queries : obs[q] > 0 /\ View(q) # NoData)
  /\ UNCHANGED <<obs, mutating>>
  /\ CacheStep

\* the entry after the request of its running fetch failed: the request is
\* sent again if the retry option says so, else the query settles in error
\* and keeps its data
failed(e, status) ==
  IF retry(e.failureCount, status)
    THEN [e EXCEPT !.failureCount = @ + 1, !.calls = @ + 1]
    ELSE [e EXCEPT !.failureCount = @ + 1, !.fetching = FALSE,
                   !.fq = NoQuery, !.status = "error", !.calls = 0]

\* the request of the running fetch fails
fetchFailure(k, status) ==
  /\ entries[k].fetching
  /\ entries' = [entries EXCEPT ![k] = failed(@, status)]
  /\ late' = FALSE
  /\ UNCHANGED <<obs, mutating>>
  /\ CacheStep

\* the data of an entry gets older than staleTime
timePasses(k) ==
  /\ entries[k].data # NoData
  /\ ~entries[k].aged
  /\ entries' = [entries EXCEPT ![k].aged = TRUE]
  /\ UNCHANGED <<obs, mutating, late>>
  /\ CacheStep

\* an entry without observers is removed after gcTime
gc(k) ==
  /\ ~entries[k].fetching
  /\ entries[k] # EmptyEntry
  /\ ~ObservedOn(obs, k)
  /\ entries' = [entries EXCEPT ![k] = EmptyEntry]
  /\ late' = FALSE
  /\ UNCHANGED <<obs, mutating>>
  /\ CacheStep

\* useCreateProperty: mutate() sends POST /properties
createPropertyStart ==
  /\ ~mutating
  /\ mutating' = TRUE
  /\ UNCHANGED <<entries, obs, late>>
  /\ CacheStep

\* useCreateProperty: the mutation settles; onSuccess invalidates
createPropertySettle(status) ==
  /\ mutating
  /\ mutating' = FALSE
  /\ entries' = IF status = "200"
                  THEN invalidateQueries(entries, obs, CreateInvalidatedKey)
                  ELSE entries
  /\ late' = FALSE
  /\ UNCHANGED obs
  /\ CacheStep

CacheNext ==
  \/ \E q \in Queries : observe(q)
  \/ \E q, r \in Queries : changeQuery(q, r)
  \/ \E q \in Queries : unobserve(q)
  \/ \E k \in Keys : fetchSuccess(k)
  \/ \E k \in Keys, s \in FetchErrors : fetchFailure(k, s)
  \/ \E k \in Keys : timePasses(k)
  \/ \E k \in Keys : gc(k)
  \/ createPropertyStart
  \/ \E s \in Statuses \ {"403"} : createPropertySettle(s)

(***************************************************************************)
(* Part III: the mutation hooks and the queries they invalidate            *)
(***************************************************************************)
Ids == {"id1"}

\* useProperty: queryKey: ['property', id]
PropertyQueryKey(id) == <<"property", id>>

\* useSubscriptionPlans: queryKey: ['subscription-plans']
SubscriptionPlansQueryKey == <<"subscription-plans">>

\* useSellingRecords: queryKey: ['selling-records']
SellingRecordsQueryKey == <<"selling-records">>

\* useSellingRecord: queryKey: ['selling-record', id]
SellingRecordQueryKey(id) == <<"selling-record", id>>

\* useAllUsers: queryKey: ['users', 'all']
AllUsersQueryKey == <<"users", "all">>

\* useUser: queryKey: ['users', id]
UserQueryKey(id) == <<"users", id>>

\* useMyInterests: queryKey: ['interests', 'my']
MyInterestsQueryKey == <<"interests", "my">>

\* usePropertyInterests: queryKey: ['interests', 'property', propertyId]
PropertyInterestsQueryKey(propertyId) == <<"interests", "property", propertyId>>

\* the keys the query hooks put into the cache
ResourceKeys ==
  {PropertiesQueryKey("F1"), SearchQueryKey("q1", "F1"),
   SubscriptionPlansQueryKey, SellingRecordsQueryKey,
   AllUsersQueryKey, MyInterestsQueryKey} \cup
  {PropertyQueryKey(id) : id \in Ids} \cup
  {SellingRecordQueryKey(id) : id \in Ids} \cup
  {UserQueryKey(id) : id \in Ids} \cup
  {PropertyInterestsQueryKey(id) : id \in Ids}

MutationHooks ==
  {"useCreateProperty", "useUpdateProperty", "useDeleteProperty",
   "useCreateSubscriptionPlan", "useUpdateSubscriptionPlan",
   "useDeleteSubscriptionPlan", "useUpdateSubscriptionStatus",
   "useCreateSellingRecord", "useUpdateSellingRecord",
   "useDeleteSellingRecord", "useSubmitInterest",
   "useCreateUser", "useUpdateUser", "useDeleteUser"}

\* variant: every handler invalidates the property lists only
onSuccessPropertiesOnly(hook, id) == << <<"properties">> >>

\* onSuccess of each mutation hook: the partial keys it passes to
\* invalidateQueries, in order; id is variables.id
onSuccess(hook, id) ==
  CASE hook = "useCreateProperty" -> << <<"properties">> >>
    [] hook = "useUpdateProperty" -> << <<"properties">>, <<"property", id>> >>
    [] hook = "useDeleteProperty" -> << <<"properties">> >>
    [] hook = "useCreateSubscriptionPlan" -> << <<"subscription-plans">> >>
    [] hook = "useUpdateSubscriptionPlan" -> << <<"subscription-plans">> >>
    [] hook = "useDeleteSubscriptionPlan" -> << <<"subscription-plans">> >>
    [] hook = "useUpdateSubscriptionStatus" -> << <<"subscription-plans">> >>
    [] hook = "useCreateSellingRecord" -> << <<"selling-records">> >>
    [] hook = "useUpdateSellingRecord" ->
         << <<"selling-records">>, <<"selling-record", id>> >>
    [] hook = "useDeleteSellingRecord" -> << <<"selling-records">> >>
    [] hook = "useSubmitInterest" -> << <<"interests">> >>
    [] hook = "useCreateUser" -> << <<"users">> >>
    [] hook = "useUpdateUser" -> << <<"users">>, <<"users", id>> >>
    [] hook = "useDeleteUser" -> << <<"users">> >>

\* the answer a queryFn stored in its entry
Rows == [hook |-> "rows", a |-> "-", b |-> "-"]

\* no component is mounted while the handlers are studied
NoObservers == <<>>

\* the calls of invalidateQueries of one handler, one after the other
RECURSIVE InvalidateEach(_, _)
InvalidateEach(es, partials) ==
  IF partials = <<>> THEN es
  ELSE InvalidateEach(invalidateQueries(es, NoObservers, Head(partials)),
                      Tail(partials))

\* useMutation is given no retry option and the QueryClient sets defaults for
\* queries only: a failed mutation is not sent again
mutationRetry == 0

\* result of a mutation hook whose mutate was not called yet
MutationIdle == [status |-> "idle", failureCount |-> 0]

ResourcesIdle ==
  /\ resources = [k \in ResourceKeys |-> EmptyEntry]
  /\ mutation = MutationIdle

\* a query hook fetched its key: the entry holds fresh data
resourceFetched(k) ==
  /\ resources' = [resources EXCEPT ![k] =
       [EmptyEntry EXCEPT !.data = Rows, !.status = "success"]]
  /\ UNCHANGED <<authVars, cacheVars, pageVars, guard, mutation>>

\* variant: the handler is registered as onSettled
settledInvalidatesAlways(es, hook, id, status) ==
  InvalidateEach(es, onSuccess(hook, id))

\* the cache after a mutation settled: the hooks register onSuccess only
settled(es, hook, id, status) ==
  IF status = "200" THEN InvalidateEach(es, onSuccess(hook, id)) ELSE es

\* the result the caller of the mutation holds once it settled: the error
\* after the last attempt, or the success
mutationResult(status) ==
  IF status = "200"
    THEN [status |-> "success", failureCount |-> 0]
    ELSE [status |-> "error", failureCount |-> 1 + mutationRetry]

\* a mutation is sent and settles
mutationSettle(hook, id, status) ==
  /\ resources' = settled(resources, hook, id, status)
  /\ mutation' = mutationResult(status)
  /\ UNCHANGED <<authVars, cacheVars, pageVars, guard>>

ResourceNext ==
  \/ \E k \in ResourceKeys : resourceFetched(k)
  \/ \E h \in MutationHooks, id \in Ids, s \in {"200", "500"} :
       mutationSettle(h, id, s)

(***************************************************************************)
(* Part IV: the Properties page                                            *)
(***************************************************************************)
\* a text is a sequence of characters
Chars == {" ", "a"}
Texts == UNION {[1..n -> Chars] : n \in 0..MaxLen}

\* options of the selects, the slider and the checkbox
PropertyTypes == {"", "house"}
SortOptions == {"-createdAt", "price"}
BedroomOptions == {"", "2"}
BathroomOptions == {"", "1"}
PriceFloor == 0
PriceCeiling == 5000000
PriceStep == 50000
PriceRanges ==
  {<<lo, hi>> : lo \in {PriceFloor, PriceFloor + PriceStep},
                hi \in {PriceCeiling - PriceStep, PriceCeiling}}
itemsPerPage == 12
\* Math.min(5, data.pagination.pages) page-number buttons
PageButtons == 5

\* totals the server can report for a filter
Totals == {13, 30}
NoTotal == 0 - 1

IsSpace(c) == c = " "

RECURSIVE trimStart(_)
trimStart(s) ==
  IF s # <<>> /\ IsSpace(Head(s)) THEN trimStart(Tail(s)) ELSE s

RECURSIVE trimEnd(_)
trimEnd(s) ==
  IF s # <<>> /\ IsSpace(s[Len(s)])
    THEN trimEnd(SubSeq(s, 1, Len(s) - 1))
    ELSE s

\* variant: the text is used as typed
trimIdentity(s) == s

\* String.prototype.trim
trim(s) == trimEnd(trimStart(s))

\* parseInt of the value of a select option
parseInt(s) ==
  CASE s = "1" -> 1 [] s = "2" -> 2 [] s = "3" -> 3
    [] s = "4" -> 4 [] s = "5" -> 5

\* a JavaScript object: its properties <<key, value>> in insertion order
EmptyObject == <<>>

\* obj.k = v for a key the object does not have yet
Put(o, k, v) == Append(o, <<k, v>>)

\* k in obj
Has(o, k) == \E i \in 1..Len(o) : o[i][1] = k

\* obj.k
Get(o, k) == o[CHOOSE i \in 1..Len(o) : o[i][1] = k][2]

\* variant: the lower price bound is always sent
HasMinPriceAlways(range) == TRUE

\* priceRange[0] > 0
HasMinPrice(range) == range[1] > 0

\* priceRange[1] < 5000000
HasMaxPrice(range) == range[2] < PriceCeiling

\* the filters useMemo: the filter object built from the state of the page
filtersOf(sq, st, pr, bd, bt, sb, cp, vo) ==
  LET o0 == Put(Put(Put(EmptyObject, "page", cp), "limit", itemsPerPage),
                "sort", sb)
      o1 == IF trim(sq) # <<>> THEN Put(o0, "location", trim(sq)) ELSE o0
      o2 == IF st # "" THEN Put(o1, "propertyType", st) ELSE o1
      o3 == IF HasMinPrice(pr) THEN Put(o2, "minPrice", pr[1]) ELSE o2
      o4 == IF HasMaxPrice(pr) THEN Put(o3, "maxPrice", pr[2]) ELSE o3
      o5 == IF bd # "" THEN Put(o4, "bedrooms", parseInt(bd)) ELSE o4
      o6 == IF bt # "" THEN Put(o5, "bathrooms", parseInt(bt)) ELSE o5
      o7 == IF vo THEN Put(o6, "verified", TRUE) ELSE o6
  IN o7

filters ==
  filtersOf(searchQuery, selectedType, priceRange, bedrooms, bathrooms,
            sortBy, currentPage, verifiedOnly)

\* the keys of PropertyFilters in the order a sort puts them
KeyOrder ==
  <<"bathrooms", "bedrooms", "limit", "location", "maxArea", "maxPrice",
    "minArea", "minPrice", "page", "propertyType", "sort", "verified">>

\* Object.keys(obj).sort()
SortKeys(o) == SelectSeq(KeyOrder, LAMBDA k : Has(o, k))

\* variant: the object is serialised in insertion order
hashKeyInsertionOrder(o) == o

\* the hash of an object inside a query key: JSON.stringify with the keys
\* of the object sorted
hashKey(o) ==
  LET ks == SortKeys(o) IN [i \in 1..Len(ks) |-> <<ks[i], Get(o, ks[i])>>]

\* the hash of the query key of useProperties(filters); two keys with the
\* same hash are one cache entry
ListingQueryHash(o) == PropertiesQueryKey(hashKey(o))

\* pagination.pages as the server computes it: ceil(total / limit)
Pages(total, limit) == (total + limit - 1) \div limit

\* number of properties the server returns for a page
ItemsOn(total, limit, page) ==
  IF page * limit <= total THEN limit
  ELSE IF (page - 1) * limit < total THEN total - (page - 1) * limit
  ELSE 0

\* useQuery result for a key that has no entry yet: the fetch starts
Loading == [status |-> "pending", total |-> NoTotal, isFetching |-> TRUE]

hasData == listing.total # NoTotal
error == listing.status = "error"
isLoading == listing.isFetching /\ listing.status = "pending"
totalPages == Pages(listing.total, itemsPerPage)

\* what the component returns
Render ==
  IF error THEN {"error-card"}
  ELSE {"controls"} \cup
       (IF isLoading THEN {"spinner"} ELSE {}) \cup
       (IF ~isLoading /\ hasData
             /\ ItemsOn(listing.total, itemsPerPage, currentPage) > 0
          THEN {"grid"} ELSE {}) \cup
       (IF ~isLoading /\ hasData
             /\ ItemsOn(listing.total, itemsPerPage, currentPage) = 0
          THEN {"no-results"} ELSE {}) \cup
       (IF ~isLoading /\ hasData /\ totalPages > 1
          THEN {"pagination"} ELSE {})

hasActiveFilters ==
  \/ searchQuery # <<>>
  \/ selectedType # ""
  \/ priceRange[1] > 0
  \/ priceRange[2] < PriceCeiling
  \/ bedrooms # ""
  \/ bathrooms # ""
  \/ verifiedOnly

PageMount ==
  /\ searchQuery = <<>>
  /\ selectedType = ""
  /\ priceRange = <<PriceFloor, PriceCeiling>>
  /\ bedrooms = ""
  /\ bathrooms = ""
  /\ sortBy = "-createdAt"
  /\ currentPage = 1
  /\ verifiedOnly = FALSE
  /\ listing = Loading

\* the re-render after a state change: useProperties(filters) reads the
\* entry of the key of the new filters, which starts fetching when the key
\* is another one
PageStep ==
  /\ \E old \in {filters}, new \in {filters'} :
       listing' = IF ListingQueryHash(new) = ListingQueryHash(old)
                    THEN listing
                    ELSE Loading
  /\ UNCHANGED <<authVars, cacheVars, resources, mutation, guard>>

setSearchQuery(t) ==
  /\ "controls" \in Render
  /\ searchQuery' = t
  /\ UNCHANGED <<selectedType, priceRange, bedrooms, bathrooms, sortBy,
                 currentPage, verifiedOnly>>
  /\ PageStep

setSortBy(s) ==
  /\ "controls" \in Render
  /\ sortBy' = s
  /\ UNCHANGED <<searchQuery, selectedType, priceRange, bedrooms, bathrooms,
                 currentPage, verifiedOnly>>
  /\ PageStep

setSelectedType(t) ==
  /\ "controls" \in Render
  /\ selectedType' = t
  /\ UNCHANGED <<searchQuery, priceRange, bedrooms, bathrooms, sortBy,
                 currentPage, verifiedOnly>>
  /\ PageStep

setBedrooms(b) ==
  /\ "controls" \in Render
  /\ bedrooms' = b
  /\ UNCHANGED <<searchQuery, selectedType, priceRange, bathrooms, sortBy,
                 currentPage, verifiedOnly>>
  /\ PageStep

setBathrooms(b) ==
  /\ "controls" \in Render
  /\ bathrooms' = b
  /\ UNCHANGED <<searchQuery, selectedType, priceRange, bedrooms, sortBy,
                 currentPage, verifiedOnly>>
  /\ PageStep

setVerifiedOnly(b) ==
  /\ "controls" \in Render
  /\ verifiedOnly' = b
  /\ UNCHANGED <<searchQuery, selectedType, priceRange, bedrooms, bathrooms,
                 sortBy, currentPage>>
  /\ PageStep

setPriceRange(r) ==
  /\ "controls" \in Render
  /\ priceRange' = r
  /\ UNCHANGED <<searchQuery, selectedType, bedrooms, bathrooms, sortBy,
                 currentPage, verifiedOnly>>
  /\ PageStep

\* submit of the search form
handleSearch ==
  /\ "controls" \in Render
  /\ currentPage' = 1
  /\ UNCHANGED <<searchQuery, selectedType, priceRange, bedrooms, bathrooms,
                 sortBy, verifiedOnly>>
  /\ PageStep

clearFilters ==
  /\ "controls" \in Render
  /\ hasActiveFilters
  /\ searchQuery' = <<>>
  /\ selectedType' = ""
  /\ priceRange' = <<PriceFloor, PriceCeiling>>
  /\ bedrooms' = ""
  /\ bathrooms' = ""
  /\ verifiedOnly' = FALSE
  /\ currentPage' = 1
  /\ UNCHANGED sortBy
  /\ PageStep

setCurrentPage(p) ==
  /\ currentPage' = p
  /\ UNCHANGED <<searchQuery, selectedType, priceRange, bedrooms, bathrooms,
                 sortBy, verifiedOnly>>
  /\ PageStep

\* the Previous button: disabled={currentPage === 1}
previousPage ==
  /\ "pagination" \in Render
  /\ currentPage # 1
  /\ setCurrentPage(currentPage - 1)

\* the Next button: disabled={currentPage === data.pagination.pages}
nextPage ==
  /\ "pagination" \in Render
  /\ currentPage # totalPages
  /\ currentPage < MaxPage
  /\ setCurrentPage(currentPage + 1)

\* the page number the i-th page-number button shows
pageNum(i) == IF currentPage <= 3 THEN i + 1 ELSE currentPage - 2 + i

\* a page-number button
pageButton(i) ==
  /\ "pagination" \in Render
  /\ i < (IF PageButtons < totalPages THEN PageButtons ELSE totalPages)
  /\ pageNum(i) <= totalPages
  /\ setCurrentPage(pageNum(i))

\* the request of useProperties is answered
listingSuccess(total) ==
  /\ listing.isFetching
  /\ listing' = [status |-> "success", total |-> total, isFetching |-> FALSE]
  /\ UNCHANGED <<uiVars, authVars, cacheVars, resources, mutation, guard>>

\* the request of useProperties failed and is not retried any more: the
\* query is in error and keeps the data it had
listingFailure ==
  /\ listing.isFetching
  /\ listing' = [listing EXCEPT !.status = "error", !.isFetching = FALSE]
  /\ UNCHANGED <<uiVars, authVars, cacheVars, resources, mutation, guard>>

\* the list on display is fetched again: its entry became stale or was
\* invalidated by a mutation
listingRefetch ==
  /\ listing.status = "success"
  /\ ~listing.isFetching
  /\ listing' = [listing EXCEPT !.isFetching = TRUE]
  /\ UNCHANGED <<uiVars, authVars, cacheVars, resources, mutation, guard>>

\* the Try Again button of the error card: window.location.reload()
tryAgain ==
  /\ "error-card" \in Render
  /\ searchQuery' = <<>>
  /\ selectedType' = ""
  /\ priceRange' = <<PriceFloor, PriceCeiling>>
  /\ bedrooms' = ""
  /\ bathrooms' = ""
  /\ sortBy' = "-createdAt"
  /\ currentPage' = 1
  /\ verifiedOnly' = FALSE
  /\ listing' = Loading
  /\ UNCHANGED <<authVars, cacheVars, resources, mutation, guard>>

PageNext ==
  \/ \E t \in Texts : setSearchQuery(t)
  \/ \E s \in SortOptions : setSortBy(s)
  \/ \E t \in PropertyTypes : setSelectedType(t)
  \/ \E b \in BedroomOptions : setBedrooms(b)
  \/ \E b \in BathroomOptions : setBathrooms(b)
  \/ \E b \in BOOLEAN : setVerifiedOnly(b)
  \/ \E r \in PriceRanges : setPriceRange(r)
  \/ handleSearch
  \/ clearFilters
  \/ previousPage
  \/ nextPage
  \/ \E i \in 0..(PageButtons - 1) : pageButton(i)
  \/ \E t \in Totals : listingSuccess(t)
  \/ listingFailure
  \/ listingRefetch
  \/ tryAgain

(***************************************************************************)
(* Part V: the route guard                                                 *)
(***************************************************************************)
\* User.role
Roles == {"buyer", "seller", "agent", "admin", "employee"}

\* the accounts of the directory: a user record, named by its id, and the
\* role it carries
Accounts ==
  [b1 |-> "buyer", s1 |-> "seller", g1 |-> "agent", a1 |-> "admin",
   e1 |-> "employee"]

UnauthorizedPath == "/unauthorized"
Children == "children"
NotRendered == "none"

\* user?.role
RoleOf(u) == IF Truthy(u) THEN Accounts[u] ELSE Undefined

\* variant: the guard as the architecture notes sketch it, a role test only
ProtectedRouteRoleTestOnly(user, isAuthenticated, allowedRoles, requireAuth) ==
  IF RoleOf(user) \notin allowedRoles THEN UnauthorizedPath ELSE Children

\* the element the guard returns: <Navigate to="/login" replace />,
\* <Navigate to="/unauthorized" replace /> or its children
ProtectedRouteElement(user, isAuthenticated, allowedRoles, requireAuth) ==
  IF requireAuth /\ ~isAuthenticated THEN LoginPath
  ELSE IF allowedRoles # {} /\ RoleOf(user) \notin allowedRoles
    THEN UnauthorizedPath
  ELSE Children

\* the sessions useAuth() can hand to the guard: a user record is held only
\* by an authenticated session
GuardSessions ==
  {[user |-> u, isAuthenticated |-> b] :
     u \in DOMAIN Accounts \cup {Null, Undefined}, b \in BOOLEAN} \
  {[user |-> u, isAuthenticated |-> FALSE] : u \in DOMAIN Accounts}

\* no guard is mounted
GuardIdle ==
  guard = [user |-> Null, isAuthenticated |-> FALSE, allowedRoles |-> {},
           requireAuth |-> TRUE, element |-> NotRendered]

\* a route wrapped in the guard is matched: the props of the guard and the
\* session it will read
GuardMount ==
  \E s \in GuardSessions, roles \in SUBSET Roles, req \in BOOLEAN :
    guard = [user |-> s.user, isAuthenticated |-> s.isAuthenticated,
             allowedRoles |-> roles, requireAuth |-> req,
             element |-> NotRendered]

GuardStep == UNCHANGED <<authVars, cacheVars, resources, mutation, pageVars>>

\* the guard renders
renderGuard ==
  /\ guard' = [guard EXCEPT !.element =
       ProtectedRouteElement(guard.user, guard.isAuthenticated,
                             guard.allowedRoles, guard.requireAuth)]
  /\ GuardStep

\* the session changes (login, logout, probe) and the guard renders again
sessionChanges(s) ==
  /\ guard.element # NotRendered
  /\ guard' = [guard EXCEPT !.user = s.user,
                            !.isAuthenticated = s.isAuthenticated,
                            !.element =
       ProtectedRouteElement(s.user, s.isAuthenticated,
                             guard.allowedRoles, guard.requireAuth)]
  /\ GuardStep

GuardNext ==
  \/ renderGuard
  \/ \E s \in GuardSessions : sessionChanges(s)

(***************************************************************************)
(* Specifications                                                          *)
(***************************************************************************)
Init == AuthInit /\ CacheIdle /\ ResourcesIdle /\ PageMount /\ GuardIdle

Next == AuthNext

Spec == Init /\ [][Next]_vars

\* the auth side while the cache is studied: an anonymous visitor
AuthIdle ==
  /\ authStorage = NoStorage
  /\ store = InitialState
  /\ pathname = PublicPath
  /\ navPending = FALSE
  /\ cookie = NoCookie
  /\ inflight = [o \in Ops |-> 0]
  /\ bootstrapped = FALSE
  /\ bootProbes = 0
  /\ last = [op |-> "init", status |-> "none", rejected |-> FALSE,
             wasAuth |-> FALSE, from |-> PublicPath]

CacheInit == AuthIdle /\ CacheIdle /\ ResourcesIdle /\ PageMount /\ GuardIdle

CacheSpec == CacheInit /\ [][CacheNext]_vars

ResourceInit == AuthIdle /\ CacheIdle /\ ResourcesIdle /\ PageMount /\ GuardIdle

ResourceSpec == ResourceInit /\ [][ResourceNext]_vars

PageInit == AuthIdle /\ CacheIdle /\ ResourcesIdle /\ PageMount /\ GuardIdle

PageSpec == PageInit /\ [][PageNext]_vars

GuardInit == AuthIdle /\ CacheIdle /\ ResourcesIdle /\ PageMount /\ GuardMount

GuardSpec == GuardInit /\ [][GuardNext]_vars

\* a request ends in a response or an error: axios gives up after timeout
\* (10 s), so the handler that awaits it resumes; stated for the requests of
\* the two handlers that raise the loading flag
RequestsEnd ==
  /\ WF_vars(\E u \in Users, s \in Statuses : loginSettle(u, s))
  /\ WF_vars(\E s \in Statuses : getCurrentUserSettle(s))

LiveSpec == Init /\ [][Next]_vars /\ RequestsEnd

(***************************************************************************)
(* Properties of the auth store                                            *)
(***************************************************************************)
Anonymous(st) == st.user = Null /\ ~st.isAuthenticated

StorageHoldsUser(stg) == stg.present /\ stg.hasUser /\ stg.user # Null

\* C1: in every reachable state isAuthenticated is true if and only if user
\* is non-null.
C1_AuthIffUser == store.isAuthenticated <=> (store.user # Null)

\* C2: once a request has completed with 401 while the session was
\* authenticated, and no document load is pending, the store is anonymous
\* and 'auth-storage' no longer holds the user, whatever the page.
C2_Any401EndsSession ==
  (last.status = "401" /\ last.wasAuth /\ ~navPending)
    => (Anonymous(store) /\ ~StorageHoldsUser(authStorage))

\* C3: a session probe that fails with a network error, a timeout or a
\* non-401 status leaves an authenticated session authenticated.
C3_ProbeFailureKeepsSession ==
  (last.op = "probe" /\ last.status \in {"500", "neterr"} /\ last.wasAuth)
    => (store.isAuthenticated /\ store.user # Null)

\* C4: the first mount pass of useAuth issues exactly one session probe,
\* however many components mount and whether or not a user was rehydrated.
C4_OneBootstrapProbe == bootstrapped => bootProbes = 1

\* C5: while the server-side logout call is in flight the store is already
\* anonymous.
C5_LogoutOptimistic == inflight["logout"] > 0 => Anonymous(store)

\* C6: when logout() completes the store is anonymous with isLoading false,
\* whatever the outcome of the server call, and logout() has not rejected.
C6_LogoutCompletes ==
  last.op = "logout"
    => (Anonymous(store) /\ ~store.isLoading /\ ~last.rejected)

C6_Witness ==
  /\ last.op = "logout" /\ last.status \in {"500", "neterr"} /\ last.wasAuth
  /\ Anonymous(store)

ListQuery(f) == [hook |-> "useProperties", a |-> f, b |-> "-"]
SearchQuery(t, f) == [hook |-> "useSearchProperties", a |-> t, b |-> f]

\* keys of the listings: the 'properties' namespace
ListingKeys == {k \in Keys : k[1] = "properties"}

\* C8: the list a component shows for its current filters is the answer to
\* the request made for those filters, also when the answer for filters it
\* has left arrives after the answer for its current ones.
C8_LastRequestWins ==
  \A q \in Queries : (obs[q] > 0 /\ View(q) # NoData) => View(q) = q

C8_Witness ==
  /\ late
  /\ obs[ListQuery("F2")] > 0 /\ obs[ListQuery("F1")] = 0
  /\ View(ListQuery("F2")) = ListQuery("F2")
  /\ View(ListQuery("F1")) = ListQuery("F1")

\* C9: while a key that has no cached data is fetched, one network call per
\* attempt has been issued for it, however many observers read the key.
C9_SingleFlight ==
  \A k \in Keys :
    (entries[k].fetching /\ entries[k].data = NoData)
      => entries[k].calls = entries[k].failureCount + 1

C9_Witness ==
  \E q \in Queries :
    /\ obs[q] >= 2
    /\ entries[KeyOf(q)].fetching
    /\ entries[KeyOf(q)].data = NoData
    /\ netCalls = 1

\* C10: a successful createProperty marks every cached listing entry (lists
\* and searches) invalidated and refetches those being observed, and the next
\* component that reads an invalidated entry issues a network call.
C10_CreateInvalidatesListings ==
  [][/\ createPropertySettle("200") =>
          \A k \in ListingKeys :
            entries[k].data # NoData =>
              /\ entries'[k].invalidated
              /\ ActiveOn(obs, k) =>
                   (entries'[k].fetching /\ entries'[k].calls > entries[k].calls)
     /\ \A q \in Queries :
          (/\ entries[KeyOf(q)].invalidated
           /\ ~entries[KeyOf(q)].fetching
           /\ obs'[q] = obs[q] + 1
           /\ observe(q))
            => (entries'[KeyOf(q)].fetching /\ netCalls' = netCalls + 1)]_vars

C10_Witness ==
  /\ entries[KeyOf(ListQuery("F1"))].data # NoData
  /\ entries[KeyOf(ListQuery("F1"))].invalidated
  /\ entries[KeyOf(SearchQuery("q1", "F1"))].data # NoData
  /\ entries[KeyOf(SearchQuery("q1", "F1"))].invalidated
  /\ entries[KeyOf(SearchQuery("q1", "F1"))].fetching

\* an entry that has data, is not invalidated and is younger than staleTime
Fresh(e) == e.data # NoData /\ ~e.invalidated /\ ~e.aged

\* C12: a component that starts reading a key whose entry is fresh (it
\* mounts, or its filters change to that key) is shown the cached data and
\* no network call is issued.
C12_FreshReadNoCall ==
  [][\A q \in Queries :
       (/\ Fresh(entries[KeyOf(q)])
        /\ obs'[q] = obs[q] + 1
        /\ (observe(q) \/ \E r \in Queries : changeQuery(r, q)))
         => (/\ netCalls' = netCalls
             /\ entries'[KeyOf(q)] = entries[KeyOf(q)]
             /\ entries'[KeyOf(q)].data = q)]_vars

C12_Witness ==
  /\ obs[ListQuery("F1")] = 2
  /\ Fresh(entries[KeyOf(ListQuery("F1"))])
  /\ ~entries[KeyOf(ListQuery("F1"))].fetching
  /\ netCalls = 1

(***************************************************************************)
(* Properties of the mutation hooks                                        *)
(***************************************************************************)
\* the key prefix of the resource a mutation hook writes to
ResourcePrefix(hook) ==
  CASE hook \in {"useCreateProperty", "useUpdateProperty",
                 "useDeleteProperty"} -> <<"properties">>
    [] hook \in {"useCreateSubscriptionPlan", "useUpdateSubscriptionPlan",
                 "useDeleteSubscriptionPlan", "useUpdateSubscriptionStatus"}
         -> <<"subscription-plans">>
    [] hook \in {"useCreateSellingRecord", "useUpdateSellingRecord",
                 "useDeleteSellingRecord"} -> <<"selling-records">>
    [] hook = "useSubmitInterest" -> <<"interests">>
    [] hook \in {"useCreateUser", "useUpdateUser", "useDeleteUser"}
         -> <<"users">>

\* C11: in every state of the cache, the onSuccess handler of each mutation
\* hook leaves every cached entry whose key starts with the key prefix of the
\* resource of that hook invalidated, whatever the rest of the key is.
C11_MutationInvalidatesNamespace ==
  \A h \in MutationHooks, id \in Ids :
    \A after \in {InvalidateEach(resources, onSuccess(h, id))} :
      \A k \in ResourceKeys :
        (IsPrefix(ResourcePrefix(h), k) /\ resources[k].data # NoData)
          => after[k].invalidated

C11_Witness ==
  /\ resources[PropertiesQueryKey("F1")].invalidated
  /\ resources[SearchQueryKey("q1", "F1")].invalidated
  /\ resources[SubscriptionPlansQueryKey].invalidated
  /\ resources[SellingRecordsQueryKey].invalidated
  /\ resources[AllUsersQueryKey].invalidated
  /\ resources[UserQueryKey("id1")].invalidated
  /\ resources[MyInterestsQueryKey].invalidated
  /\ resources[PropertyInterestsQueryKey("id1")].invalidated

C13_CachedListStaysDisplayed ==
  (/\ error
   /\ hasData
   /\ ItemsOn(listing.total, itemsPerPage, currentPage) > 0)
    => "grid" \in Render

\* C15: a price bound, the property type, the bedrooms, the bathrooms and
\* the verified flag are properties of the filter object exactly when the
\* control differs from its default, so a page whose controls are all at
\* their defaults builds the object {page, limit, sort}.
C15_DefaultsLeftOut ==
  \A f \in {filters} :
    /\ Has(f, "minPrice") <=> priceRange[1] # PriceFloor
    /\ Has(f, "maxPrice") <=> priceRange[2] # PriceCeiling
    /\ Has(f, "propertyType") <=> selectedType # ""
    /\ Has(f, "bedrooms") <=> bedrooms # ""
    /\ Has(f, "bathrooms") <=> bathrooms # ""
    /\ Has(f, "verified") <=> verifiedOnly
    /\ ~hasActiveFilters =>
         hashKey(f) = << <<"limit", itemsPerPage>>, <<"page", currentPage>>,
                         <<"sort", sortBy>> >>

C15_Witness ==
  /\ priceRange = <<PriceFloor, PriceCeiling - PriceStep>>
  /\ selectedType = ""
  /\ bedrooms = "2"
  /\ bathrooms = ""
  /\ ~verifiedOnly
  /\ Has(filters, "maxPrice") /\ ~Has(filters, "minPrice")

\* positions of the characters of a text that are not spaces
NonSpaces(s) == {i \in 1..Len(s) : s[i] # " "}

\* a text without its leading and trailing spaces
Strip(s) ==
  IF NonSpaces(s) = {} THEN <<>>
  ELSE SubSeq(s, CHOOSE i \in NonSpaces(s) : \A j \in NonSpaces(s) : i <= j,
                 CHOOSE i \in NonSpaces(s) : \A j \in NonSpaces(s) : i >= j)

\* C16: the filter has a location exactly when the search text has a
\* character that is not a space, the location is the search text without
\* its leading and trailing spaces, and search texts that differ only in
\* leading or trailing spaces give the same query key.
C16_LocationTrimmed ==
  \A f \in {filters} :
    /\ Has(f, "location") <=> NonSpaces(searchQuery) # {}
    /\ Has(f, "location") => Get(f, "location") = Strip(searchQuery)
    /\ \A hf \in {ListingQueryHash(f)}, sq \in {Strip(searchQuery)} :
         \A t \in Texts :
           Strip(t) = sq =>
             ListingQueryHash(filtersOf(t, selectedType, priceRange,
                                        bedrooms, bathrooms, sortBy,
                                        currentPage, verifiedOnly))
               = hf

C16_Witness ==
  /\ searchQuery = <<" ", "a">>
  /\ Get(filters, "location") = <<"a">>
  /\ listing.status = "success"

\* the properties of a filter object other than the page
Dimensions(f) == SelectSeq(f, LAMBDA p : p[1] # "page")

\* C17: a step that changes a property of the filter other than the page
\* leaves the filter with page = 1.
C17_FilterChangeResetsPage ==
  [][\A old \in {filters}, new \in {filters'} :
       Dimensions(new) # Dimensions(old) => Get(new, "page") = 1]_vars

\* C18: when a listing response has been applied the current page is within
\* 1..totalPages (1 when there are no pages at all).
C18_PageClamped ==
  [][(\E t \in Totals : listingSuccess(t)) =>
       /\ 1 <= currentPage'
       /\ (currentPage' <= Pages(listing'.total, itemsPerPage)
             \/ currentPage' = 1)]_vars

\* C19: Previous, Next and the page-number buttons leave the current page
\* within 1..totalPages.
C19_PageChangeInRange ==
  [][(previousPage \/ nextPage
        \/ \E i \in 0..(PageButtons - 1) : pageButton(i))
       => (1 <= currentPage' /\ currentPage' <= totalPages)]_vars

\* the properties of an object as a set: structural equality of records
Props(o) == {o[i] : i \in 1..Len(o)}

\* the same object with its properties inserted in the opposite order
Reversed(o) == [i \in 1..Len(o) |-> o[Len(o) + 1 - i]]

\* the filter objects of the pages one change of the search box away, and
\* the filter object of this page with its properties inserted in the
\* opposite order
Neighbours ==
  {filtersOf(t, selectedType, priceRange, bedrooms, bathrooms, sortBy,
             currentPage, verifiedOnly) : t \in Texts} \cup
  {Reversed(filters)}

\* C20: two filter objects have the same query key hash exactly when they
\* have the same properties, in whatever order the properties were inserted.
C20_SameEntryIffEqual ==
  \A f \in {filters} : \A hf \in {ListingQueryHash(f)}, pf \in {Props(f)} :
    \A g \in Neighbours :
      (ListingQueryHash(g) = hf) <=> (Props(g) = pf)

C20_Witness ==
  /\ Len(filters) >= 6
  /\ searchQuery = <<"a", " ">>
  /\ currentPage = 2
  /\ listing.status = "success"

LoginCompletes ==
  last'.op = "login" /\ inflight'["login"] = inflight["login"] - 1

\* C24: a login call that fails leaves user and isAuthenticated as they
\* were, ends with isLoading false and rejects to its caller; a login call
\* that takes a session that was not authenticated to authenticated is one
\* that succeeded.
C24_FailedLoginKeepsSession ==
  [][LoginCompletes =>
       /\ last'.status # "200" =>
            /\ store'.user = store.user
            /\ store'.isAuthenticated = store.isAuthenticated
            /\ ~store'.isLoading
            /\ last'.rejected
       /\ (~store.isAuthenticated /\ store'.isAuthenticated)
            => (last'.status = "200" /\ ~last'.rejected)]_vars

C24_Witness ==
  /\ last.op = "login" /\ last.status = "401" /\ last.rejected
  /\ last.wasAuth /\ store.isAuthenticated /\ store.user \in Users
  /\ ~store.isLoading

\* C25: when a login call has just completed with 200, the server having
\* answered with the body {status, token, data: {user}}, the store holds the
\* user record of that answer, which is not null, isAuthenticated is true
\* and isLoading is false.
C25_LoginStoresUser ==
  (last.op = "login" /\ last.status = "200")
    => /\ Truthy(store.user)
       /\ store.user = LoginResponseBody(cookie).data.user
       /\ store.isAuthenticated
       /\ ~store.isLoading

(***************************************************************************)
(* Properties of concurrent calls of the store                             *)
(***************************************************************************)
\* a login or getCurrentUser call is in flight
Busy(f) == f["login"] > 0 \/ f["probe"] > 0

\* the steps of login, getCurrentUser (alone or from useAuth), logout and
\* clearAuth
CallSteps ==
  {"loginStart", "login", "mount", "probe", "logoutStart", "logout",
   "clearAuth"}

\* C26: a step of login, getCurrentUser, logout or clearAuth, taken in a
\* state where isLoading is true if a login or getCurrentUser call is in
\* flight, leads to a state where that is so again, whatever calls run
\* concurrently.
C26_LoadingWhileInFlight ==
  [][(/\ last'.op \in CallSteps
      /\ Busy(inflight) => store.isLoading)
       => (Busy(inflight') => store'.isLoading)]_vars

\* C27: when a login has just succeeded and a session probe issued before
\* it is still in flight, the failure of that probe leaves the store
\* authenticated with the same user and leaves 'auth-storage' as it is.
C27_StaleProbeKeepsLogin ==
  [][(/\ last.op = "login" /\ last.status = "200"
      /\ store.isAuthenticated
      /\ inflight["probe"] > 0
      /\ last'.op = "probe" /\ last'.status # "200"
      /\ inflight'["probe"] = inflight["probe"] - 1)
       => (/\ store'.isAuthenticated
           /\ store'.user = store.user
           /\ authStorage' = authStorage)]_vars

(***************************************************************************)
(* Properties of the session probe on public pages                         *)
(***************************************************************************)
\* a visitor without a session: no cookie, no user in the store or in
\* 'auth-storage'
AnonymousVisitor ==
  /\ cookie = NoCookie
  /\ Anonymous(store)
  /\ ~StorageHoldsUser(authStorage)

\* C28: when the session probe issued by useAuth completes for a visitor
\* without a session who is on a page that needs no authentication, no
\* navigation is started and the visitor stays on that page.
C28_ProbeKeepsPublicPage ==
  [][(/\ AnonymousVisitor
      /\ pathname = PublicPath /\ ~navPending
      /\ bootProbes > 0
      /\ last'.op = "probe"
      /\ inflight'["probe"] = inflight["probe"] - 1)
       => (~navPending' /\ pathname' = PublicPath)]_vars

(***************************************************************************)
(* Properties of the mutations of a property                               *)
(***************************************************************************)
\* C29: in every state of the cache, the onSuccess handlers of
\* useUpdateProperty and useDeleteProperty for property id leave a cached
\* detail entry ['property', id] invalidated, hence stale for its next
\* reader.
C29_DetailInvalidated ==
  \A h \in {"useUpdateProperty", "useDeleteProperty"}, id \in Ids :
    \A after \in {InvalidateEach(resources, onSuccess(h, id))} :
      resources[PropertyQueryKey(id)].data # NoData
        => (/\ after[PropertyQueryKey(id)].invalidated
            /\ IsStale(after[PropertyQueryKey(id)]))

(***************************************************************************)
(* Properties of failed mutations                                          *)
(***************************************************************************)
\* C30: in every state of the cache, a mutation of any hook that fails,
\* with an error status or without a response, leaves every cached entry as
\* it is, invalidation flag included, and its caller holds the error after
\* one attempt; and a step in which a mutation settles in error changes no
\* cached entry.
C30_FailedMutationKeepsCache ==
  /\ [](\A h \in MutationHooks, id \in Ids, s \in FetchErrors :
          /\ settled(resources, h, id, s) = resources
          /\ mutationResult(s) = [status |-> "error", failureCount |-> 1])
  /\ [][(mutation'.status = "error" /\ mutation' # mutation)
          => resources' = resources]_vars

C30_Witness ==
  /\ mutation.status = "error"
  /\ mutation.failureCount = 1
  /\ \A k \in ResourceKeys : Fresh(resources[k])

====
